---- MODULE Spec2Model ----
(***************************************************************************)
(* ShadeShift (streamlit_app.py): one run of main() as a state machine.    *)
(* A run reads the uploaded table, validates the required columns, cleans  *)
(* the numeric columns, derives Reach and TagList, previews, applies the   *)
(* Faction and tag filters and renders the chart or the warning.           *)
(*                                                                         *)
(* Text is a sequence of one-character strings, so that split, strip,      *)
(* numeric parsing and sorting are computed and not assumed.               *)
(*                                                                         *)
(* Streamlit runs main() again from the top on every interaction and main  *)
(* keeps nothing between runs, so a run with any selection the widgets can *)
(* return stands for any rerun.                                            *)
(***************************************************************************)
EXTENDS Integers, Sequences, FiniteSets, TLC

VARIABLES
    pc,                 \* position of the run inside main()
    stages,             \* the stages of main() this run has executed
    columns,            \* df.columns as read from the file
    raw,                \* the table as read by pd.read_excel
    df,                 \* the local df of main()
    missing_cols,       \* the list built at line 28
    error,              \* TRUE once st.error was called
    exception,          \* name of the unhandled exception, "" when none
    all_unique_tags,    \* line 60
    all_factions,       \* line 71
    preview,            \* what st.dataframe was given
    selected_factions,  \* what the Faction multiselect returned
    selected_tags,      \* what the Tag multiselect returned
    use_images,         \* what the checkbox returned
    warning,            \* TRUE once st.warning was called
    chart,              \* what st.altair_chart was given
    cleaned,            \* df as it stands after line 60
    afterFaction        \* df as it stands after line 77

vars == <<pc, stages, columns, raw, df, missing_cols, error, exception,
          all_unique_tags, all_factions, preview, selected_factions,
          selected_tags, use_images, warning, chart, cleaned, afterFaction>>

----------------------------------------------------------------------------
(* Bounds of the model *)

\* rows per uploaded table, tables whose numeric cells vary
MaxRows == 1
\* rows per uploaded table, tables whose Faction and Tags cells vary
MaxRowsF == 2
\* characters per Tags text, tables whose Tags text is arbitrary
MaxLen == 4

\* df.head() shows the first five rows
PreviewRows == 5

----------------------------------------------------------------------------
(* Cells: a spreadsheet cell is missing, a number or a text *)

NULL == [k |-> "null", v |-> 0, s |-> <<>>]
Num(n) == [k |-> "num", v |-> n, s |-> <<>>]
Txt(s) == [k |-> "text", v |-> 0, s |-> s]

IsNull(c) == c.k = "null"

Range(f) == {f[i] : i \in DOMAIN f}

\* ord() of the characters the model uses
Code(c) ==
    CASE c = " " -> 32 [] c = "," -> 44 [] c = "-" -> 45 [] c = "/" -> 47
      [] c = "0" -> 48 [] c = "1" -> 49 [] c = "2" -> 50 [] c = "5" -> 53
      [] c = "A" -> 65 [] c = "F" -> 70 [] c = "N" -> 78
      [] c = "a" -> 97 [] c = "b" -> 98 [] c = "n" -> 110

\* str < str of Python: lexicographic by code point
RECURSIVE StrLess(_, _)
StrLess(s, t) ==
    IF t = <<>> THEN FALSE
    ELSE IF s = <<>> THEN TRUE
    ELSE IF Head(s) # Head(t) THEN Code(Head(s)) < Code(Head(t))
    ELSE StrLess(Tail(s), Tail(t))

\* str.strip(): leading and trailing whitespace removed
RECURSIVE LStrip(_)
LStrip(s) ==
    IF s # <<>> /\ Head(s) = " " THEN LStrip(Tail(s)) ELSE s

RECURSIVE RStrip(_)
RStrip(s) ==
    IF s # <<>> /\ s[Len(s)] = " " THEN RStrip(SubSeq(s, 1, Len(s) - 1)) ELSE s

Strip(s) == RStrip(LStrip(s))

\* str.split(","): the pieces between the commas, empty pieces included
RECURSIVE Split(_)
Split(s) ==
    IF \A i \in DOMAIN s : s[i] # ","
    THEN <<s>>
    ELSE LET i == CHOOSE j \in DOMAIN s :
                      s[j] = "," /\ \A h \in 1..(j - 1) : s[h] # ","
         IN  <<SubSeq(s, 1, i - 1)>> \o Split(SubSeq(s, i + 1, Len(s)))

\* the test of the comprehension without its strip: if t != ""
TagTokensUnstrippedTest(x) ==
    LET pieces == Split(x)
        kept == SelectSeq(pieces, LAMBDA t : t # <<>>)
    IN  [i \in DOMAIN kept |-> Strip(kept[i])]

\* [t.strip() for t in x.split(",") if t.strip() != ""]
TagTokens(x) ==
    LET pieces == Split(x)
        kept == SelectSeq(pieces, LAMBDA t : Strip(t) # <<>>)
    IN  [i \in DOMAIN kept |-> Strip(kept[i])]

Digits == {"0", "1", "2", "5"}

DigitVal(c) == Code(c) - 48

RECURSIVE DecVal(_)
DecVal(s) ==
    IF s = <<>> THEN 0 ELSE 10 * DecVal(SubSeq(s, 1, Len(s) - 1)) + DigitVal(s[Len(s)])

IsDigits(s) == s # <<>> /\ \A i \in DOMAIN s : s[i] \in Digits

\* pd.to_numeric(errors="coerce") on one text: an integer literal parses, anything else is NaN
ParseNumeric(s) ==
    LET t == Strip(s)
    IN  IF IsDigits(t) THEN Num(DecVal(t))
        ELSE IF t # <<>> /\ Head(t) = "-" /\ IsDigits(Tail(t)) THEN Num(0 - DecVal(Tail(t)))
        ELSE NULL

\* pd.to_numeric(errors="coerce") on one cell
ToNumeric(c) ==
    IF c.k = "text" THEN ParseNumeric(c.s) ELSE c

----------------------------------------------------------------------------
(* The data frame: a sequence of rows, each with its index label and cells *)

Cell(r, c) == r.cells[c]

WithCol(r, c, val) ==
    [r EXCEPT !.cells = [x \in (DOMAIN r.cells) \cup {c} |->
                            IF x = c THEN val ELSE r.cells[x]]]

required_columns ==
    <<"Name", "Faction", "Tags", "Disposition", "TwFollowers", "WebsiteViews">>

Required == Range(required_columns)

NumericCols == {"Disposition", "TwFollowers", "WebsiteViews"}

\* the header matched without regard to case
MissingColsAnyCase(cols) ==
    SelectSeq(required_columns,
              LAMBDA c : c \notin cols /\ ~(c = "Name" /\ "name" \in cols))

\* [col for col in required_columns if col not in df.columns]
MissingCols(cols) == SelectSeq(required_columns, LAMBDA c : c \notin cols)

\* lines 36-38
CoerceRows(d) ==
    [i \in DOMAIN d |->
        [d[i] EXCEPT !.cells = [c \in DOMAIN d[i].cells |->
            IF c \in NumericCols THEN ToNumeric(d[i].cells[c]) ELSE d[i].cells[c]]]]

\* dropna with TwFollowers left out of the subset
DropNaRowsNoTw(d) ==
    SelectSeq(d, LAMBDA r : \A c \in NumericCols \ {"TwFollowers"} : ~IsNull(Cell(r, c)))

\* df.dropna(subset=["Disposition", "TwFollowers", "WebsiteViews"])
DropNaRows(d) ==
    SelectSeq(d, LAMBDA r : \A c \in NumericCols : ~IsNull(Cell(r, c)))

\* float addition: NaN when an operand is NaN
AddCells(a, b) ==
    IF a.k = "num" /\ b.k = "num" THEN Num(a.v + b.v) ELSE NULL

\* df["Reach"] = df["TwFollowers"] + df["WebsiteViews"]
AddReach(d) ==
    [i \in DOMAIN d |->
        WithCol(d[i], "Reach", AddCells(Cell(d[i], "TwFollowers"), Cell(d[i], "WebsiteViews")))]

\* the positivity test on TwFollowers instead of Reach
KeepPositiveTw(d) ==
    SelectSeq(d, LAMBDA r : Cell(r, "TwFollowers").k = "num" /\ Cell(r, "TwFollowers").v > 0)

\* the positivity test as >= 0
KeepNonNegative(d) ==
    SelectSeq(d, LAMBDA r : Cell(r, "Reach").k = "num" /\ Cell(r, "Reach").v >= 0)

\* df[df["Reach"] > 0]: NaN > 0 is False
KeepPositive(d) ==
    SelectSeq(d, LAMBDA r : Cell(r, "Reach").k = "num" /\ Cell(r, "Reach").v > 0)

\* x.split on a cell that is neither text nor missing raises AttributeError
TagsRaise(d) == \E i \in DOMAIN d : Cell(d[i], "Tags").k = "num"

\* df["Tags"].fillna("").apply(lambda x: ...)
TagListOf(c) == TagTokens(IF IsNull(c) THEN <<>> ELSE c.s)

AddTagList(d) ==
    [i \in DOMAIN d |-> WithCol(d[i], "TagList", TagListOf(Cell(d[i], "Tags")))]

RECURSIVE SetToSeq(_)
SetToSeq(S) ==
    IF S = {} THEN <<>>
    ELSE LET x == CHOOSE y \in S : TRUE IN <<x>> \o SetToSeq(S \ {x})

\* sorted(set(tag for tags in df["TagList"] for tag in tags))
AllUniqueTags(d) ==
    SortSeq(SetToSeq(UNION {Range(Cell(d[i], "TagList")) : i \in DOMAIN d}), StrLess)

\* < between two Faction values of the same type
CellLess(a, b) == IF a.k = "num" THEN a.v < b.v ELSE StrLess(a.s, b.s)

\* df["Faction"].dropna().unique()
FactionValues(d) ==
    {Cell(d[i], "Faction") : i \in DOMAIN d} \ {NULL}

\* sorted() of text and numbers together raises TypeError
FactionsRaise(d) == \E a, b \in FactionValues(d) : a.k # b.k

AllFactions(d) == SortSeq(SetToSeq(FactionValues(d)), CellLess)

\* the whole frame instead of its head
HeadAll(d) == d

\* df.head()
HeadRows(d) == SubSeq(d, 1, IF Len(d) < PreviewRows THEN Len(d) ELSE PreviewRows)

\* df[df["Faction"].isin(selected_factions)]
FactionFilterRows(d, sel) ==
    SelectSeq(d, LAMBDA r : Cell(r, "Faction") \in sel)

\* the tag filter without its "if selected_tags" guard
TagFilterUnguarded(d, sel) ==
    SelectSeq(d, LAMBDA r : \E t \in sel : t \in Range(Cell(r, "TagList")))

\* the guard computed from the tags still present in the frame
TagFilterPresent(d, sel) ==
    IF sel \cap UNION {Range(Cell(d[i], "TagList")) : i \in DOMAIN d} # {}
    THEN SelectSeq(d, LAMBDA r : \E t \in sel : t \in Range(Cell(r, "TagList")))
    ELSE d

\* if selected_tags: df = df[df["TagList"].apply(lambda row_tags: any(...))]
TagFilterRows(d, sel) ==
    IF sel # {}
    THEN SelectSeq(d, LAMBDA r : \E t \in sel : t \in Range(Cell(r, "TagList")))
    ELSE d

\* "df is None" in place of df.empty
DfIsNone(d) == FALSE

\* df.empty
DfEmpty(d) == d = <<>>

NoChart == [built |-> FALSE, mark |-> "", y_scale |-> "", rows |-> <<>>, color |-> <<>>]

\* alt.condition("datum.Disposition < 0", alt.value("red"), alt.value("blue"))
ColorOf(r) == IF Cell(r, "Disposition").v < 0 THEN "red" ELSE "blue"

\* lines 110-157
BuildChart(d, images) ==
    [built |-> TRUE,
     mark |-> IF images THEN "image" ELSE "circle",
     y_scale |-> "log",
     rows |-> d,
     color |-> IF images THEN <<>> ELSE [i \in DOMAIN d |-> ColorOf(d[i])]]

NoPreview == [shown |-> FALSE, rows |-> <<>>]

----------------------------------------------------------------------------
(* Uploaded tables *)

F1 == <<"F", "1">>
F2 == <<"F", "2">>

MkCells(name, faction, tags, disp, tw, wv) ==
    [c \in Required |->
        CASE c = "Name" -> name
          [] c = "Faction" -> faction
          [] c = "Tags" -> tags
          [] c = "Disposition" -> disp
          [] c = "TwFollowers" -> tw
          [] c = "WebsiteViews" -> wv]

\* pd.read_excel gives the rows the default index 0, 1, 2, ...
Frame(t) == [i \in DOMAIN t |-> [idx |-> i - 1, cells |-> t[i]]]

Tables(U, n) == UNION {[1..m -> U] : m \in 0..n}

Valid(T) == {[cols |-> Required, rows |-> Frame(t)] : t \in T}

\* a row whose every cell is good
BaseCells ==
    MkCells(Txt(<<"n">>), Txt(F1), Txt(<<"a">>), Num(0 - 3), Num(100), Num(0))

\* the header row of the file: any of the required names may be absent, and
\* "name" differs from "Name" only in case
ColumnSets == SUBSET (Required \cup {"name"})

OnColumns(cells, cols) ==
    [c \in cols |-> IF c \in DOMAIN cells THEN cells[c] ELSE Txt(<<"n">>)]

AnyColumns ==
    {[cols |-> cs, rows |-> Frame([i \in 1..m |-> OnColumns(BaseCells, cs)])] :
        cs \in ColumnSets, m \in 0..1}

\* rows whose numeric cells, Name and Tags vary
NumericRows ==
    {MkCells(n, Txt(F1), t, d, tw, wv) :
        n \in {Txt(<<"n">>), NULL},
        t \in {Txt(<<"a">>), NULL, Num(5)},
        d \in {Num(0 - 3), Txt(<<"N", "/", "A">>), Txt(<<"2">>)},
        tw \in {Num(100), Num(0), NULL},
        wv \in {Num(0), Num(0 - 100), Txt(<<"5", "0">>)}}

\* the rows of the specification's scenarios A, B and C, and a row with text
\* in a numeric column and no Name
ScenarioRows ==
    {MkCells(Txt(<<"n">>), Txt(F1), Txt(<<"a">>), Num(0 - 3), Num(100), Num(0)),
     MkCells(Txt(<<"n">>), Txt(F1), Txt(<<"a">>), Num(2), Num(0), Num(0)),
     MkCells(Txt(<<"n">>), Txt(F1), Txt(<<"a">>), Txt(<<"N", "/", "A">>), Num(100), Num(0)),
     MkCells(NULL, Txt(F2), NULL, Num(2), Txt(<<"5", "0">>), Num(0 - 1))}

\* every table of up to MaxRows rows, and the three-row tables of scenario rows
InputsNumeric ==
    Valid(Tables(NumericRows, MaxRows) \cup [1..3 -> ScenarioRows]) \cup AnyColumns

\* rows whose Faction and Tags vary; one more row that cleaning drops
FilterRows ==
    {MkCells(Txt(<<"n">>), f, t, Num(0 - 3), Num(100), Num(0)) :
        f \in {Txt(F1), Txt(F2), NULL, Num(7)},
        t \in {Txt(<<"a">>), Txt(<<"b", ",", " ", "a">>), Txt(<<" ", ",">>), NULL}}
    \cup {MkCells(Txt(<<"n">>), Txt(F1), Txt(<<"a">>), Num(2), Num(0), Num(0))}

\* tables longer than the preview
LongRows ==
    {MkCells(Txt(<<"n">>), Txt(F1), Txt(<<"a">>), Num(0 - 3), Num(100), Num(0)),
     MkCells(Txt(<<"n">>), Txt(F2), NULL, Num(2), Num(0), Num(100))}

InputsFilter ==
    Valid(Tables(FilterRows, MaxRowsF) \cup [1..(PreviewRows + 1) -> LongRows])
    \cup AnyColumns

TagChars == {"a", "b", ",", " "}

\* the example of the specification: "a, b ,b,"
ExampleTags == <<"a", ",", " ", "b", " ", ",", "b", ",">>

TagTexts ==
    {Txt(s) : s \in Tables(TagChars, MaxLen) \cup {ExampleTags}} \cup {NULL}

SecondTexts == {Txt(<<"b">>), Txt(<<"A", ",", "a">>), Txt(<<"a", " ", "b">>), NULL}

TagRow(t) == MkCells(Txt(<<"n">>), Txt(F1), t, Num(0 - 3), Num(100), Num(0))

\* one or two rows; the Tags text of the first is arbitrary
InputsTags ==
    Valid({<<TagRow(t)>> : t \in TagTexts}
          \cup {<<TagRow(t), TagRow(u)>> : t \in TagTexts, u \in SecondTexts})
    \cup AnyColumns

----------------------------------------------------------------------------
(* The run *)

Init ==
    /\ pc = "start"
    /\ stages = {}
    /\ columns = {}
    /\ raw = <<>>
    /\ df = <<>>
    /\ missing_cols = <<>>
    /\ error = FALSE
    /\ exception = ""
    /\ all_unique_tags = <<>>
    /\ all_factions = <<>>
    /\ preview = NoPreview
    /\ selected_factions = {}
    /\ selected_tags = {}
    /\ use_images = FALSE
    /\ warning = FALSE
    /\ chart = NoChart
    /\ cleaned = <<>>
    /\ afterFaction = <<>>

\* lines 13-19: a file was uploaded and is read
Upload(inputs) ==
    /\ pc = "start"
    /\ \E inp \in inputs :
        /\ columns' = inp.cols
        /\ raw' = inp.rows
        /\ df' = inp.rows
    /\ pc' = "validate"
    /\ stages' = stages \cup {"read"}
    /\ UNCHANGED <<missing_cols, error, exception, all_unique_tags, all_factions,
                   preview, selected_factions, selected_tags, use_images, warning,
                   chart, cleaned, afterFaction>>

UploadNumeric == Upload(InputsNumeric)

UploadFilter == Upload(InputsFilter)

UploadTags == Upload(InputsTags)

\* line 15: no file yet, main() falls through
NoUpload ==
    /\ pc = "start"
    /\ pc' = "done"
    /\ UNCHANGED <<stages, columns, raw, df, missing_cols, error, exception,
                   all_unique_tags, all_factions, preview, selected_factions,
                   selected_tags, use_images, warning, chart, cleaned, afterFaction>>

\* lines 24-31
Validate ==
    /\ pc = "validate"
    /\ missing_cols' = MissingCols(columns)
    /\ IF MissingCols(columns) # <<>>
       THEN error' = TRUE /\ pc' = "done"
       ELSE error' = FALSE /\ pc' = "coerce"
    /\ stages' = stages \cup {"validate"}
    /\ UNCHANGED <<columns, raw, df, exception, all_unique_tags, all_factions,
                   preview, selected_factions, selected_tags, use_images, warning,
                   chart, cleaned, afterFaction>>

\* lines 36-38
Coerce ==
    /\ pc = "coerce"
    /\ df' = CoerceRows(df)
    /\ pc' = "dropna"
    /\ stages' = stages \cup {"coerce"}
    /\ UNCHANGED <<columns, raw, missing_cols, error, exception, all_unique_tags,
                   all_factions, preview, selected_factions, selected_tags,
                   use_images, warning, chart, cleaned, afterFaction>>

\* line 41
DropNa ==
    /\ pc = "dropna"
    /\ df' = DropNaRows(df)
    /\ pc' = "reach"
    /\ stages' = stages \cup {"dropna"}
    /\ UNCHANGED <<columns, raw, missing_cols, error, exception, all_unique_tags,
                   all_factions, preview, selected_factions, selected_tags,
                   use_images, warning, chart, cleaned, afterFaction>>

\* line 46
ComputeReach ==
    /\ pc = "reach"
    /\ df' = AddReach(df)
    /\ pc' = "positive"
    /\ stages' = stages \cup {"reach"}
    /\ UNCHANGED <<columns, raw, missing_cols, error, exception, all_unique_tags,
                   all_factions, preview, selected_factions, selected_tags,
                   use_images, warning, chart, cleaned, afterFaction>>

\* line 49
DropNonPositive ==
    /\ pc = "positive"
    /\ df' = KeepPositive(df)
    /\ pc' = "tags"
    /\ stages' = stages \cup {"positive"}
    /\ UNCHANGED <<columns, raw, missing_cols, error, exception, all_unique_tags,
                   all_factions, preview, selected_factions, selected_tags,
                   use_images, warning, chart, cleaned, afterFaction>>

\* lines 55-60
ParseTags ==
    /\ pc = "tags"
    /\ IF TagsRaise(df)
       THEN /\ exception' = "AttributeError"
            /\ pc' = "crashed"
            /\ UNCHANGED <<df, all_unique_tags, cleaned>>
       ELSE /\ df' = AddTagList(df)
            /\ all_unique_tags' = AllUniqueTags(AddTagList(df))
            /\ cleaned' = AddTagList(df)
            /\ pc' = "preview"
            /\ UNCHANGED exception
    /\ stages' = stages \cup {"tags"}
    /\ UNCHANGED <<columns, raw, missing_cols, error, all_factions, preview,
                   selected_factions, selected_tags, use_images, warning, chart,
                   afterFaction>>

\* lines 65-66
Preview ==
    /\ pc = "preview"
    /\ preview' = [shown |-> TRUE, rows |-> HeadRows(df)]
    /\ pc' = "faction"
    /\ stages' = stages \cup {"preview"}
    /\ UNCHANGED <<columns, raw, df, missing_cols, error, exception, all_unique_tags,
                   all_factions, selected_factions, selected_tags, use_images,
                   warning, chart, cleaned, afterFaction>>

\* lines 71-77: the multiselect returns any subset of its options
FilterFaction ==
    /\ pc = "faction"
    /\ IF FactionsRaise(df)
       THEN /\ exception' = "TypeError"
            /\ pc' = "crashed"
            /\ UNCHANGED <<df, all_factions, selected_factions, afterFaction>>
       ELSE /\ all_factions' = AllFactions(df)
            /\ \E sel \in SUBSET Range(AllFactions(df)) :
                /\ selected_factions' = sel
                /\ df' = FactionFilterRows(df, sel)
                /\ afterFaction' = FactionFilterRows(df, sel)
            /\ pc' = "tagfilter"
            /\ UNCHANGED exception
    /\ stages' = stages \cup {"faction"}
    /\ UNCHANGED <<columns, raw, missing_cols, error, all_unique_tags, preview,
                   selected_tags, use_images, warning, chart, cleaned>>

\* lines 82-91: the multiselect returns any subset of its options
FilterTags ==
    /\ pc = "tagfilter"
    /\ \E sel \in SUBSET Range(all_unique_tags) :
        /\ selected_tags' = sel
        /\ df' = TagFilterRows(df, sel)
    /\ pc' = "render"
    /\ stages' = stages \cup {"tagfilter"}
    /\ UNCHANGED <<columns, raw, missing_cols, error, exception, all_unique_tags,
                   all_factions, preview, selected_factions, use_images, warning,
                   chart, cleaned, afterFaction>>

\* lines 93-159: the checkbox, then the warning or the chart
Render ==
    /\ pc = "render"
    /\ \E images \in BOOLEAN :
        /\ use_images' = images
        /\ IF DfEmpty(df)
           THEN warning' = TRUE /\ chart' = chart
           ELSE warning' = warning /\ chart' = BuildChart(df, images)
    /\ pc' = "done"
    /\ stages' = stages \cup {"render"}
    /\ UNCHANGED <<columns, raw, df, missing_cols, error, exception, all_unique_tags,
                   all_factions, preview, selected_factions, selected_tags,
                   cleaned, afterFaction>>

Pipeline ==
    \/ NoUpload
    \/ Validate
    \/ Coerce
    \/ DropNa
    \/ ComputeReach
    \/ DropNonPositive
    \/ ParseTags
    \/ Preview
    \/ FilterFaction
    \/ FilterTags
    \/ Render

Next == UploadNumeric \/ Pipeline

NextFilter == UploadFilter \/ Pipeline

\* the run as far as the tag expansion
NextTags ==
    \/ UploadTags
    \/ NoUpload
    \/ Validate
    \/ Coerce
    \/ DropNa
    \/ ComputeReach
    \/ DropNonPositive
    \/ ParseTags

\* tables whose numeric cells vary
Spec == Init /\ [][Next]_vars

\* tables whose Faction and Tags vary
SpecFilter == Init /\ [][NextFilter]_vars

\* tables whose Tags text is arbitrary
SpecTags == Init /\ [][NextTags]_vars

----------------------------------------------------------------------------
(* Properties of validation and cleaning, under Spec *)

After(stage) == stage \in stages

\* the frame as cleaning left it: df until the filters narrow it, and the
\* frame of line 60 from then on
CleanFrame == IF After("preview") THEN cleaned ELSE df

\* the uploaded row a row of the frame comes from
RawOf(r) == raw[r.idx + 1]

\* C1: a table that lacks a required column (names compared literally, so
\* "name" does not stand for "Name") ends the run right after validation:
\* the reported names are exactly the required names that are absent, and
\* no later stage runs (no coercion, preview, filter, warning or chart).
C1_MissingColumnsHalt ==
    (After("validate") /\ Required \ columns # {}) =>
        /\ pc = "done"
        /\ error
        /\ Range(missing_cols) = Required \ columns
        /\ stages = {"read", "validate"}
        /\ df = raw
        /\ ~preview.shown
        /\ ~warning
        /\ ~chart.built
        /\ exception = ""

\* C1 witness: a halted run that reports Name although a column "name" is
\* there, together with a second missing column.
C1_Witness ==
    /\ pc = "done"
    /\ error
    /\ "name" \in columns
    /\ Range(missing_cols) = {"Name", "Tags"}

NumericPositive(r) ==
    /\ \A c \in NumericCols : Cell(r, c).k = "num"
    /\ Cell(r, "Reach").k = "num"
    /\ Cell(r, "Reach").v > 0

\* C2: once the cleaning stage (lines 36-49) is over, every row of the frame,
\* of the preview and of the chart has numeric Disposition, TwFollowers and
\* WebsiteViews and a Reach that is strictly greater than zero.
C2_CleanRowsNumericPositive ==
    After("positive") =>
        /\ \A i \in DOMAIN CleanFrame : NumericPositive(CleanFrame[i])
        /\ \A i \in DOMAIN df : NumericPositive(df[i])
        /\ \A i \in DOMAIN preview.rows : NumericPositive(preview.rows[i])
        /\ \A i \in DOMAIN chart.rows : NumericPositive(chart.rows[i])

\* C2 witness: a chart is drawn from a row whose Disposition and WebsiteViews
\* were text in the file ("2", "50").
C2_Witness ==
    /\ chart.built
    /\ Len(chart.rows) = 1
    /\ RawOf(chart.rows[1]).cells["Disposition"] = Txt(<<"2">>)
    /\ Cell(chart.rows[1], "Disposition") = Num(2)
    /\ Cell(chart.rows[1], "Reach") = Num(150)

\* C3 as stated: after cleaning no remaining row has a missing value in any
\* required column (Name, Faction, Tags, Disposition, TwFollowers,
\* WebsiteViews).
C3_NoNullInRequired ==
    After("positive") =>
        \A i \in DOMAIN CleanFrame : \A c \in Required : ~IsNull(Cell(CleanFrame[i], c))

\* C3 amended: from the null-drop on, no remaining row has a missing value in
\* Disposition, TwFollowers or WebsiteViews; its Name, Faction and Tags are
\* the uploaded cells, missing or not.
C3_NoNullInNumeric ==
    After("dropna") =>
        \A i \in DOMAIN CleanFrame :
            /\ \A c \in NumericCols : ~IsNull(Cell(CleanFrame[i], c))
            /\ \A c \in Required \ NumericCols :
                   Cell(CleanFrame[i], c) = Cell(RawOf(CleanFrame[i]), c)

\* C3 witness: a row with missing Name and missing Tags is still in the frame
\* after cleaning.
C3_Witness ==
    /\ After("positive")
    /\ \E i \in DOMAIN CleanFrame :
           IsNull(Cell(CleanFrame[i], "Name")) /\ IsNull(Cell(CleanFrame[i], "Tags"))

Parses(r) == \A c \in NumericCols : ToNumeric(Cell(r, c)).k = "num"

ReachOf(r) == ToNumeric(Cell(r, "TwFollowers")).v + ToNumeric(Cell(r, "WebsiteViews")).v

InFrame(r) == \E j \in DOMAIN CleanFrame : CleanFrame[j].idx = r.idx

\* C6: an uploaded row is in the frame after cleaning if and only if its
\* Disposition, TwFollowers and WebsiteViews parse as numbers and
\* TwFollowers + WebsiteViews > 0, whatever its Name and Tags; a surviving
\* row's Reach is that sum, and the survivors keep their order.  So
\* (-3, 100, 0) stays with Reach 100, (TwFollowers 0, WebsiteViews 0) goes,
\* and a Disposition of "N/A" goes.
C6_SurvivesIffNumericPositive ==
    After("positive") =>
        /\ \A i \in DOMAIN raw : InFrame(raw[i]) <=> (Parses(raw[i]) /\ ReachOf(raw[i]) > 0)
        /\ \A j \in DOMAIN CleanFrame : Cell(CleanFrame[j], "Reach") = Num(ReachOf(RawOf(CleanFrame[j])))
        /\ \A j, h \in DOMAIN CleanFrame : j < h => CleanFrame[j].idx < CleanFrame[h].idx
        /\ \A i \in DOMAIN raw :
            /\ (/\ Cell(raw[i], "Disposition") = Num(0 - 3)
                /\ Cell(raw[i], "TwFollowers") = Num(100)
                /\ Cell(raw[i], "WebsiteViews") = Num(0))
               => \E j \in DOMAIN CleanFrame :
                      CleanFrame[j].idx = raw[i].idx /\ Cell(CleanFrame[j], "Reach") = Num(100)
            /\ (Cell(raw[i], "TwFollowers") = Num(0) /\ Cell(raw[i], "WebsiteViews") = Num(0))
               => ~InFrame(raw[i])
            /\ Cell(raw[i], "Disposition") = Txt(<<"N", "/", "A">>) => ~InFrame(raw[i])

\* C6 witness: of the uploaded rows ("N/A", 100, 0), (-3, 100, 0) and
\* (2, 0, 0), in that order, only the second is in the frame after cleaning,
\* with Reach 100.
C6_Witness ==
    /\ After("positive")
    /\ Len(raw) = 3
    /\ Cell(raw[1], "Disposition") = Txt(<<"N", "/", "A">>)
    /\ Cell(raw[2], "Disposition") = Num(0 - 3)
    /\ Cell(raw[2], "TwFollowers") = Num(100)
    /\ Cell(raw[2], "WebsiteViews") = Num(0)
    /\ Cell(raw[3], "TwFollowers") = Num(0)
    /\ Cell(raw[3], "WebsiteViews") = Num(0)
    /\ Len(CleanFrame) = 1
    /\ CleanFrame[1].idx = 1
    /\ Cell(CleanFrame[1], "Reach") = Num(100)

----------------------------------------------------------------------------
(* Properties of the tag expansion, under SpecTags *)

\* the Tags text of an uploaded cell, "" when it is missing
TagsText(c) == IF IsNull(c) THEN <<>> ELSE c.s

\* the places that end a piece of s: before it, each comma, after it
Cuts(s) == {0, Len(s) + 1} \cup {i \in DOMAIN s : s[i] = ","}

NextCut(s, c) == CHOOSE n \in Cuts(s) : n > c /\ \A m \in Cuts(s) : m > c => n <= m

\* the places of s, after the cut c and before the next one, that hold no blank
Inked(s, c) == {i \in (c + 1)..(NextCut(s, c) - 1) : s[i] # " "}

\* the cuts that start a piece holding something else than blanks
Starts(s) == {c \in Cuts(s) \ {Len(s) + 1} : Inked(s, c) # {}}

Least(S) == CHOOSE x \in S : \A y \in S : x <= y

Most(S) == CHOOSE x \in S : \A y \in S : y <= x

\* the tokens of s, stated by position: for each such piece, in order, the
\* text from its first to its last non-blank character
TokensByPosition(s) ==
    [k \in 1..Cardinality(Starts(s)) |->
        LET c == CHOOSE x \in Starts(s) : Cardinality({y \in Starts(s) : y < x}) = k - 1
        IN  SubSeq(s, Least(Inked(s, c)), Most(Inked(s, c)))]

\* C7: the tag expansion gives every row the tokens of its Tags text: the
\* text is cut at the commas, each piece trimmed, empty and blank pieces
\* dropped, order and repetitions kept ("a, b ,b," gives [a, b, b], a missing
\* Tags gives []); the tag options are the union of all rows' tokens, without
\* repetition and in ascending order.
C7_TagExpansion ==
    (After("tags") /\ pc # "crashed") =>
        /\ \A i \in DOMAIN df :
            /\ Cell(df[i], "TagList") = TokensByPosition(TagsText(Cell(RawOf(df[i]), "Tags")))
            /\ Cell(df[i], "Tags") = Txt(ExampleTags)
               => Cell(df[i], "TagList") = <<<<"a">>, <<"b">>, <<"b">>>>
            /\ IsNull(Cell(df[i], "Tags")) => Cell(df[i], "TagList") = <<>>
        /\ Range(all_unique_tags) = UNION {Range(Cell(df[i], "TagList")) : i \in DOMAIN df}
        /\ \A i, j \in DOMAIN all_unique_tags :
            i < j => StrLess(all_unique_tags[i], all_unique_tags[j])

\* C7 witness: the rows "a, b ,b," and "A,a" give the lists [a, b, b] and
\* [A, a] and the options [A, a, b].
C7_Witness ==
    /\ After("tags")
    /\ Len(df) = 2
    /\ Cell(df[1], "Tags") = Txt(ExampleTags)
    /\ Cell(df[1], "TagList") = <<<<"a">>, <<"b">>, <<"b">>>>
    /\ Cell(df[2], "TagList") = <<<<"A">>, <<"a">>>>
    /\ all_unique_tags = <<<<"A">>, <<"a">>, <<"b">>>>

----------------------------------------------------------------------------
(* Properties of the filters, the preview and the rendering, under
   SpecFilter *)

\* C4 as stated: with every observed Faction and every observed tag selected
\* (the widgets' defaults) the filters remove no row of the cleaned table.
C4_DefaultSelectionKeepsAll ==
    (/\ After("tagfilter")
     /\ selected_factions = Range(all_factions)
     /\ selected_tags = Range(all_unique_tags))
    => df = cleaned

\* C5: in a run that passed validation and came to its end, a chart is built
\* exactly when a row is left after the filters, and the warning is shown
\* exactly when none is; the chart shows the rows that are left; an empty
\* table raises nothing; neither a chart nor a warning comes before that.
C5_ChartIffRowsRemain ==
    /\ (pc = "done" /\ After("validate") /\ ~error) =>
        /\ After("render")
        /\ chart.built <=> df # <<>>
        /\ warning <=> df = <<>>
        /\ chart.built => chart.rows = df /\ chart.mark = (IF use_images THEN "image" ELSE "circle")
        /\ exception = ""
    /\ ~After("render") => ~chart.built /\ ~warning
    /\ (After("tagfilter") /\ df = <<>>) => pc \in {"render", "done"}

\* C5 witness: in image mode the filters leave no row of a cleaned table that
\* had rows, and the run ends with the warning and no chart.
C5_Witness ==
    /\ pc = "done"
    /\ use_images
    /\ cleaned # <<>>
    /\ df = <<>>
    /\ warning
    /\ ~chart.built

InBoth(a, b, r) == r \in Range(a) /\ r \in Range(b)

\* C8: for every pair of selections the frame after the Faction filter and
\* then the tag filter equals the cleaned table after the tag filter and then
\* the Faction filter, and equals the rows of the cleaned table that each
\* filter alone keeps.
C8_FiltersCommute ==
    After("tagfilter") =>
        LET byFaction == FactionFilterRows(cleaned, selected_factions)
            byTags == TagFilterRows(cleaned, selected_tags)
        IN  /\ df = FactionFilterRows(byTags, selected_factions)
            /\ df = SelectSeq(cleaned, LAMBDA r : InBoth(byFaction, byTags, r))

\* C8 witness: both selections are narrowed on a cleaned table of two rows;
\* each filter alone keeps the row the other drops, so no row passes both.
C8_Witness ==
    /\ After("tagfilter")
    /\ Len(cleaned) = 2
    /\ FactionFilterRows(cleaned, selected_factions) = <<cleaned[1]>>
    /\ TagFilterRows(cleaned, selected_tags) = <<cleaned[2]>>
    /\ selected_tags # {}
    /\ df = <<>>

Shares(r, sel) == \E t \in sel : t \in Range(Cell(r, "TagList"))

\* C9 as stated: when no row is left after the filters the preview shows no
\* row.
C9_PreviewEmptyWhenFilteredEmpty ==
    (After("tagfilter") /\ df = <<>>) => preview.rows = <<>>

\* C9 amended: the preview shows the first five rows of the cleaned table as
\* it is before the filters, whatever the filters leave; when no row is left
\* after the filters the run raises nothing and ends with the warning.
C9_PreviewShowsCleanedHead ==
    /\ preview.shown =>
        /\ Len(preview.rows) = (IF Len(cleaned) < 5 THEN Len(cleaned) ELSE 5)
        /\ \A i \in DOMAIN preview.rows : preview.rows[i] = cleaned[i]
    /\ (After("tagfilter") /\ df = <<>>) =>
        /\ preview.shown
        /\ exception = ""
        /\ pc = "done" => warning

\* C9 witness: a cleaned table of six rows, five of them in the preview, and
\* no row left after the filters.
C9_Witness ==
    /\ pc = "done"
    /\ df = <<>>
    /\ Len(cleaned) = 6
    /\ Len(preview.rows) = 5

\* C10: with a non-empty tag selection the tag filter keeps, in order, exactly
\* the rows that passed the Faction filter and have a tag of the selection in
\* their TagList, so no row with an empty TagList; with an empty selection it
\* keeps every row that passed the Faction filter.
C10_TagMembership ==
    After("tagfilter") =>
        IF selected_tags # {}
        THEN /\ \A i \in DOMAIN afterFaction :
                 (afterFaction[i] \in Range(df)) <=> Shares(afterFaction[i], selected_tags)
             /\ Range(df) \subseteq Range(afterFaction)
             /\ \A j, h \in DOMAIN df : j < h => df[j].idx < df[h].idx
             /\ \A j \in DOMAIN df : Cell(df[j], "TagList") # <<>>
        ELSE df = afterFaction

\* C10 witness: a non-empty selection removes a row whose TagList is empty
\* and keeps another row.
C10_Witness ==
    /\ After("tagfilter")
    /\ selected_tags # {}
    /\ df # <<>>
    /\ \E i \in DOMAIN afterFaction :
        Cell(afterFaction[i], "TagList") = <<>> /\ afterFaction[i] \notin Range(df)

====
